---- MODULE Spec2Model ----
(***************************************************************************)
(* Model of pandas_questions.py: the referendum pipeline                   *)
(*   load_data -> merge_regions_and_departments                            *)
(*             -> merge_referendum_and_areas                               *)
(*             -> compute_referendum_result_by_regions                     *)
(*             -> plot_referendum_map                                      *)
(* driven by the __main__ block.                                           *)
(*                                                                         *)
(* A DataFrame is a sequence of rows (records, one field per column).      *)
(* A Python str is a tuple of one-character strings, so that substring     *)
(* tests, zero-padding and lexicographic comparison are computed.          *)
(* NaN in an object column is NULL; a float64 value is a record            *)
(* [kind, num, den] (an exact quotient, or nan, or inf).                   *)
(***************************************************************************)
EXTENDS Integers, Sequences, FiniteSets, TLC

VARIABLES
    files,                      \* the files present under data/
    pc,                         \* position of __main__
    referendum,                 \* referendum, as returned by load_data
    regions,                    \* df_reg
    departments,                \* df_dep
    regions_and_departments,
    referendum_and_areas,
    referendum_results,
    geo_regions,                \* the geometries last read from regions.geojson
    geo_merged,                 \* gpd_result
    output,                     \* what the run has printed / rendered so far
    plots                       \* number of calls of plot_referendum_map

vars == <<files, pc, referendum, regions, departments, regions_and_departments,
          referendum_and_areas, referendum_results, geo_regions, geo_merged,
          output, plots>>

\* ---------------------------------------------------------------- bounds
\* Longest ballot table read from referendum.csv.
MaxBallots == 2
\* Calls of plot_referendum_map on one result table (__main__ makes one; a
\* caller holding the table may make more).
MaxPlots == 2

\* ---------------------------------------------------------------- strings
NULL == <<"NaN">>

\* ord(c) for the characters that occur in the input domains.
CodePoint(c) ==
    CASE c = "0" -> 48 [] c = "1" -> 49 [] c = "2" -> 50 [] c = "3" -> 51
      [] c = "4" -> 52 [] c = "5" -> 53 [] c = "6" -> 54 [] c = "7" -> 55
      [] c = "8" -> 56 [] c = "9" -> 57
      [] c = "A" -> 65 [] c = "F" -> 70 [] c = "I" -> 73 [] c = "R" -> 82
      [] c = "Z" -> 90 [] c = "d" -> 100 [] c = "u" -> 117 [] c = "v" -> 118

\* Python's s < t on str: lexicographic by code point, a proper prefix first.
StrLess(s, t) ==
    \E i \in 1..(Len(t)) :
        /\ i <= Len(s) + 1
        /\ \A j \in 1..(i - 1) : s[j] = t[j]
        /\ \/ i = Len(s) + 1
           \/ CodePoint(s[i]) < CodePoint(t[i])

\* Series.str.contains(ch) for a one-character, non-special pattern: a
\* case-sensitive search anywhere in the string.
StrContains(s, ch) == \E i \in 1..Len(s) : s[i] = ch

\* str.zfill(width) for a string without a sign prefix.
RECURSIVE zfill(_, _)
zfill(s, width) == IF Len(s) >= width THEN s ELSE zfill(<<"0">> \o s, width)

\* ---------------------------------------------------------------- input domains
Files == {"referendum.csv", "regions.csv", "departments.csv", "regions.geojson"}

\* All sequences over S of length at most n.
RECURSIVE SeqsUpTo(_, _)
SeqsUpTo(S, n) ==
    IF n = 0 THEN {<<>>}
    ELSE LET shorter == SeqsUpTo(S, n - 1)
         IN  shorter \cup {Append(q, x) : q \in shorter, x \in S}

\* All sequences over S that hold no row twice.
RECURSIVE InjSeqs(_)
InjSeqs(S) ==
    IF S = {} THEN {<<>>}
    ELSE UNION {{<<>>} \cup {<<x>> \o q : q \in InjSeqs(S \ {x})} : x \in S}

\* Rows of regions.csv: code 84 may be listed under two names.
RegionRows ==
    { [code |-> <<"1","1">>, name |-> <<"I","d","F">>],
      [code |-> <<"8","4">>, name |-> <<"A","R","A">>],
      [code |-> <<"8","4">>, name |-> <<"A","u","v">>] }

\* Rows of departments.csv.  regions.csv may lack the region a row points at.
DepartmentRows ==
    { [code |-> <<"0","1">>, region_code |-> <<"8","4">>, name |-> <<"A","1">>],
      [code |-> <<"2","A">>, region_code |-> <<"1","1">>, name |-> <<"A","2">>],
      [code |-> <<"Z","A">>, region_code |-> <<"8","4">>, name |-> <<"A","Z">>] }

\* Rows of referendum.csv before the zero-padding; 69 is in no department row.
BallotRows ==
    { [Department_code |-> <<"1">>, Registered |-> 100, Abstentions |-> 20,
       Null |-> 5, Choice_A |-> 40, Choice_B |-> 35],
      [Department_code |-> <<"1">>, Registered |-> 10, Abstentions |-> 10,
       Null |-> 0, Choice_A |-> 0, Choice_B |-> 0],
      [Department_code |-> <<"2","A">>, Registered |-> 7, Abstentions |-> 1,
       Null |-> 1, Choice_A |-> 2, Choice_B |-> 3],
      [Department_code |-> <<"Z","A">>, Registered |-> 9, Abstentions |-> 2,
       Null |-> 0, Choice_A |-> 6, Choice_B |-> 1],
      [Department_code |-> <<"6","9">>, Registered |-> 4, Abstentions |-> 0,
       Null |-> 0, Choice_A |-> 1, Choice_B |-> 3] }

\* Rows of regions.geojson: 27 is a region without results.
GeoRows ==
    { [code |-> <<"8","4">>, geometry |-> "polygon84"],
      [code |-> <<"2","7">>, geometry |-> "polygon27"] }

\* ---------------------------------------------------------------- load_data
\* referendum['Department code'].str.zfill(2)
PadDepartmentCode(raw) ==
    [i \in 1..Len(raw) |->
        [raw[i] EXCEPT !.Department_code = zfill(raw[i].Department_code, 2)]]

\* ---------------------------------------------------------------- merge_regions_and_departments
\* departments.merge(regions, on='code_reg', how='left') after the renames,
\* then the selection of the four columns.  The key column code_reg of the
\* result is the left (department) key.
\* Variant: an inner join, which loses a department without a region.
RECURSIVE merge_regions_and_departments_inner(_, _)
merge_regions_and_departments_inner(regs, deps) ==
    IF deps = <<>> THEN <<>>
    ELSE LET d == Head(deps)
             Match(r) == r.code = d.region_code
             m == SelectSeq(regs, Match)
             Row(nm) == [code_reg |-> d.region_code, name_reg |-> nm,
                         code_dep |-> d.code, name_dep |-> d.name]
         IN  [i \in 1..Len(m) |-> Row(m[i].name)]
                 \o merge_regions_and_departments_inner(regs, Tail(deps))

RECURSIVE merge_regions_and_departments(_, _)
merge_regions_and_departments(regs, deps) ==
    IF deps = <<>> THEN <<>>
    ELSE LET d == Head(deps)
             Match(r) == r.code = d.region_code
             m == SelectSeq(regs, Match)
             Row(nm) == [code_reg |-> d.region_code, name_reg |-> nm,
                         code_dep |-> d.code, name_dep |-> d.name]
             rows == IF m = <<>> THEN <<Row(NULL)>>
                     ELSE [i \in 1..Len(m) |-> Row(m[i].name)]
         IN  rows \o merge_regions_and_departments(regs, Tail(deps))

\* ---------------------------------------------------------------- merge_referendum_and_areas
\* Variant: an exact match on one code instead of the substring test.
referendum_filtered_exact(ref) ==
    LET Keep(b) == b.Department_code # <<"Z", "Z">>
    IN  SelectSeq(ref, Keep)

\* referendum[~referendum['Department code'].str.contains('Z')].copy()
referendum_filtered(ref) ==
    LET Keep(b) == ~StrContains(b.Department_code, "Z")
    IN  SelectSeq(ref, Keep)

\* One ballot row next to one row of regions_and_departments (all columns of
\* both frames are kept by the merge).
AreaRow(b, code_reg, name_reg, code_dep, name_dep) ==
    [Department_code |-> b.Department_code, Registered |-> b.Registered,
     Abstentions |-> b.Abstentions, Null |-> b.Null,
     Choice_A |-> b.Choice_A, Choice_B |-> b.Choice_B,
     code_reg |-> code_reg, name_reg |-> name_reg,
     code_dep |-> code_dep, name_dep |-> name_dep]

\* referendum_filtered.merge(regions_and_departments,
\*     left_on='Department code', right_on='code_dep', how='left')
RECURSIVE merge_left_on_department(_, _)
merge_left_on_department(ref, rd) ==
    IF ref = <<>> THEN <<>>
    ELSE LET b == Head(ref)
             Match(a) == a.code_dep = b.Department_code
             m == SelectSeq(rd, Match)
             rows == IF m = <<>> THEN <<AreaRow(b, NULL, NULL, NULL, NULL)>>
                     ELSE [i \in 1..Len(m) |->
                             AreaRow(b, m[i].code_reg, m[i].name_reg,
                                     m[i].code_dep, m[i].name_dep)]
         IN  rows \o merge_left_on_department(Tail(ref), rd)

\* df_merged.dropna(subset=['code_reg'])
dropna_code_reg(df) ==
    LET Keep(r) == r.code_reg # NULL
    IN  SelectSeq(df, Keep)

merge_referendum_and_areas(ref, rd) ==
    dropna_code_reg(merge_left_on_department(referendum_filtered(ref), rd))

\* ---------------------------------------------------------------- compute_referendum_result_by_regions
cols_to_sum == <<"Registered", "Abstentions", "Null", "Choice_A", "Choice_B">>

\* The group keys of groupby(['code_reg', 'name_reg']): dropna=True is the
\* default, so a row with NaN in either key column belongs to no group.
GroupKeys(df) ==
    { <<df[i].code_reg, df[i].name_reg>> :
        i \in {j \in 1..Len(df) : df[j].code_reg # NULL /\ df[j].name_reg # NULL} }

\* Order of two group keys: by code_reg, then by name_reg.
KeyLess(k, l) ==
    \/ StrLess(k[1], l[1])
    \/ k[1] = l[1] /\ StrLess(k[2], l[2])

\* A set of group keys in ascending order.
RECURSIVE SortedGroupKeys(_)
SortedGroupKeys(K) ==
    IF K = {} THEN <<>>
    ELSE LET least == CHOOSE k \in K : \A l \in K \ {k} : KeyLess(k, l)
         IN  <<least>> \o SortedGroupKeys(K \ {least})

\* .sum() of one column over the rows of one group.
RECURSIVE GroupSum(_, _, _)
GroupSum(df, key, col) ==
    IF df = <<>> THEN 0
    ELSE LET r == Head(df)
             rest == GroupSum(Tail(df), key, col)
         IN  IF <<r.code_reg, r.name_reg>> = key THEN r[col] + rest ELSE rest

\* The group keys in the order of their first row (what sort=False gives).
RECURSIVE KeysInRowOrder(_, _)
KeysInRowOrder(df, seen) ==
    IF df = <<>> THEN <<>>
    ELSE LET k == <<Head(df).code_reg, Head(df).name_reg>>
         IN  IF k[1] = NULL \/ k[2] = NULL \/ k \in seen
             THEN KeysInRowOrder(Tail(df), seen)
             ELSE <<k>> \o KeysInRowOrder(Tail(df), seen \cup {k})

\* Variant: groupby(..., sort=False).
SortedKeys_unsorted(df) == KeysInRowOrder(df, {})

\* sort=True is the default of groupby: the groups come out in key order.
SortedKeys(df) == SortedGroupKeys(GroupKeys(df))

\* groupby(...)[cols_to_sum].sum().reset_index(), set_index('code_reg') and the
\* column selection: one row per group, the index is the field code_reg.
compute_referendum_result_by_regions(df) ==
    LET keys == SortedKeys(df)
    IN  [i \in 1..Len(keys) |->
            [code_reg |-> keys[i][1], name_reg |-> keys[i][2],
             Registered |-> GroupSum(df, keys[i], cols_to_sum[1]),
             Abstentions |-> GroupSum(df, keys[i], cols_to_sum[2]),
             Null |-> GroupSum(df, keys[i], cols_to_sum[3]),
             Choice_A |-> GroupSum(df, keys[i], cols_to_sum[4]),
             Choice_B |-> GroupSum(df, keys[i], cols_to_sum[5])]]

\* ---------------------------------------------------------------- plot_referendum_map
NaN == [kind |-> "nan", num |-> 0, den |-> 0]

\* int64 / int64 in pandas: a float64, with 0/0 = nan and x/0 = +-inf, and
\* no exception.
TrueDiv(a, b) ==
    IF b # 0 THEN [kind |-> "num", num |-> a, den |-> b]
    ELSE IF a = 0 THEN NaN
    ELSE [kind |-> "inf", num |-> a, den |-> 0]

\* Variant: every ballot cast, the null ones included.
Expressed_with_null(r) == r.Choice_A + r.Choice_B + r.Null

\* referendum_result_by_regions['Expressed'] = ...
Expressed(r) == r.Choice_A + r.Choice_B

\* The two column assignments, made in place on the caller's table.
AddRatio(df) ==
    [i \in 1..Len(df) |->
        [code_reg |-> df[i].code_reg, name_reg |-> df[i].name_reg,
         Registered |-> df[i].Registered, Abstentions |-> df[i].Abstentions,
         Null |-> df[i].Null, Choice_A |-> df[i].Choice_A,
         Choice_B |-> df[i].Choice_B,
         Expressed |-> Expressed(df[i]),
         ratio |-> TrueDiv(df[i].Choice_A, Expressed(df[i]))]]

\* geo_regions.merge(results[['name_reg', 'ratio']], left_on='code',
\*     right_index=True, how='left')
RECURSIVE merge_geo(_, _)
merge_geo(geo, df) ==
    IF geo = <<>> THEN <<>>
    ELSE LET g == Head(geo)
             Match(r) == r.code_reg = g.code
             m == SelectSeq(df, Match)
             Row(nm, ra) == [code |-> g.code, geometry |-> g.geometry,
                             name_reg |-> nm, ratio |-> ra]
             rows == IF m = <<>> THEN <<Row(NULL, NaN)>>
                     ELSE [i \in 1..Len(m) |-> Row(m[i].name_reg, m[i].ratio)]
         IN  rows \o merge_geo(Tail(geo), df)

\* ---------------------------------------------------------------- __main__
CsvFiles == <<"referendum.csv", "regions.csv", "departments.csv">>

\* The first read of load_data that finds no file.
FirstMissing ==
    LET i == CHOOSE j \in 1..Len(CsvFiles) :
                /\ CsvFiles[j] \notin files
                /\ \A k \in 1..(j - 1) : CsvFiles[k] \in files
    IN  CsvFiles[i]

Init ==
    /\ files \in SUBSET Files
    /\ pc = "start"
    /\ referendum = <<>>
    /\ regions = <<>>
    /\ departments = <<>>
    /\ regions_and_departments = <<>>
    /\ referendum_and_areas = <<>>
    /\ referendum_results = <<>>
    /\ geo_regions = <<>>
    /\ geo_merged = <<>>
    /\ output = <<>>
    /\ plots = 0

\* load_data() returns; "Data loaded successfully."
LoadData ==
    /\ pc = "start"
    /\ \A i \in 1..Len(CsvFiles) : CsvFiles[i] \in files
    /\ \E raw \in SeqsUpTo(BallotRows, MaxBallots) :
           referendum' = PadDepartmentCode(raw)
    /\ regions' \in InjSeqs(RegionRows)
    /\ departments' \in InjSeqs(DepartmentRows)
    /\ pc' = "loaded"
    /\ output' = Append(output, "Data loaded successfully.")
    /\ UNCHANGED <<files, regions_and_departments, referendum_and_areas,
                   referendum_results, geo_regions, geo_merged, plots>>

\* pd.read_csv raises FileNotFoundError, which __main__ catches and reports.
LoadDataFails ==
    /\ pc = "start"
    /\ \E i \in 1..Len(CsvFiles) : CsvFiles[i] \notin files
    /\ pc' = "failed"
    /\ output' = Append(output, "Error: Data file not found: " \o FirstMissing)
    /\ UNCHANGED <<files, referendum, regions, departments,
                   regions_and_departments, referendum_and_areas,
                   referendum_results, geo_regions, geo_merged, plots>>

MergeRegionsAndDepartments ==
    /\ pc = "loaded"
    /\ regions_and_departments' = merge_regions_and_departments(regions, departments)
    /\ pc' = "merged_rd"
    /\ output' = Append(output, "Regions and departments merged.")
    /\ UNCHANGED <<files, referendum, regions, departments, referendum_and_areas,
                   referendum_results, geo_regions, geo_merged, plots>>

\* Variant: the filter applied to the caller's table instead of a copy.
MergeReferendumAndAreas_inplace ==
    /\ pc = "merged_rd"
    /\ referendum' = referendum_filtered(referendum)
    /\ referendum_and_areas' =
           merge_referendum_and_areas(referendum, regions_and_departments)
    /\ pc' = "merged_ra"
    /\ output' = Append(output, "Referendum and areas merged.")
    /\ UNCHANGED <<files, regions, departments,
                   regions_and_departments, referendum_results, geo_regions,
                   geo_merged, plots>>

MergeReferendumAndAreas ==
    /\ pc = "merged_rd"
    /\ referendum_and_areas' =
           merge_referendum_and_areas(referendum, regions_and_departments)
    /\ pc' = "merged_ra"
    /\ output' = Append(output, "Referendum and areas merged.")
    /\ UNCHANGED <<files, referendum, regions, departments,
                   regions_and_departments, referendum_results, geo_regions,
                   geo_merged, plots>>

\* The result table is computed and its head is printed.
ComputeResults ==
    /\ pc = "merged_ra"
    /\ referendum_results' = compute_referendum_result_by_regions(referendum_and_areas)
    /\ pc' = "aggregated"
    /\ output' = Append(output, "Aggregated Results by Region (Head)")
    /\ UNCHANGED <<files, referendum, regions, departments,
                   regions_and_departments, referendum_and_areas, geo_regions,
                   geo_merged, plots>>

\* plot_referendum_map(referendum_results): the geometries are read, the two
\* columns are added to the caller's table, the figure is drawn.
PlotMap ==
    /\ pc = "aggregated"
    /\ "regions.geojson" \in files
    /\ geo_regions' \in InjSeqs(GeoRows)
    /\ geo_merged' = merge_geo(geo_regions', AddRatio(referendum_results))
    /\ referendum_results' = AddRatio(referendum_results)
    /\ pc' = "plotted"
    /\ plots' = 1
    /\ output' = output \o <<"figure", "Map plotted successfully.">>
    /\ UNCHANGED <<files, referendum, regions, departments,
                   regions_and_departments, referendum_and_areas>>

\* gpd.read_file finds no file, before anything of plot_referendum_map has
\* run.  The exception class is the I/O engine's: where it is a
\* FileNotFoundError __main__ reports it, otherwise it leaves __main__ uncaught.
PlotMapFails ==
    /\ pc = "aggregated"
    /\ "regions.geojson" \notin files
    /\ \E caught \in BOOLEAN :
         /\ pc' = IF caught THEN "failed" ELSE "crashed"
         /\ output' = Append(output,
                IF caught THEN "Error: Data file not found: regions.geojson"
                ELSE "Traceback")
    /\ UNCHANGED <<files, referendum, regions, departments,
                   regions_and_departments, referendum_and_areas,
                   referendum_results, geo_regions, geo_merged, plots>>

\* A further call of plot_referendum_map on the table __main__ holds.
PlotAgain ==
    /\ pc = "plotted"
    /\ plots < MaxPlots
    /\ "regions.geojson" \in files
    /\ geo_regions' \in InjSeqs(GeoRows)
    /\ geo_merged' = merge_geo(geo_regions', AddRatio(referendum_results))
    /\ referendum_results' = AddRatio(referendum_results)
    /\ plots' = plots + 1
    /\ output' = Append(output, "figure")
    /\ UNCHANGED <<files, pc, referendum, regions, departments,
                   regions_and_departments, referendum_and_areas>>

Next ==
    \/ LoadData
    \/ LoadDataFails
    \/ MergeRegionsAndDepartments
    \/ MergeReferendumAndAreas
    \/ ComputeResults
    \/ PlotMap
    \/ PlotMapFails
    \/ PlotAgain

Spec == Init /\ [][Next]_vars

\* ================================================================ properties
Rows(df) == {df[i] : i \in 1..Len(df)}

RECURSIVE ColumnSum(_, _)
ColumnSum(df, col) == IF df = <<>> THEN 0 ELSE Head(df)[col] + ColumnSum(Tail(df), col)

RegionCodes(regs) == {regs[i].code : i \in 1..Len(regs)}

UniqueRegionCodes(regs) ==
    \A i, j \in 1..Len(regs) : regs[i].code = regs[j].code => i = j

\* The department rows whose region code regions.csv does not list.
Orphans == {d \in Rows(departments) : d.region_code \notin RegionCodes(regions)}

\* Sequence q with the rows at i and i+1 exchanged.
Swap(q, i) ==
    [j \in 1..Len(q) |-> IF j = i THEN q[i + 1] ELSE IF j = i + 1 THEN q[i] ELSE q[j]]

Swaps(q) == {Swap(q, i) : i \in 1..(Len(q) - 1)}

\* The three table stages run one after the other on given inputs.
Pipeline(ref, regs, deps) ==
    compute_referendum_result_by_regions(
        merge_referendum_and_areas(ref, merge_regions_and_departments(regs, deps)))

\* C1: when the region codes of the Region table are unique, the hierarchy join
\* returns exactly one row per department row, in the departments' order,
\* a department whose region is absent included: nothing dropped, nothing
\* duplicated.
C1_HierarchyJoinKeepsEveryDepartment ==
    (pc \notin {"start", "loaded"} /\ UniqueRegionCodes(regions)) =>
        /\ Len(regions_and_departments) = Len(departments)
        /\ \A i \in 1..Len(departments) :
               /\ regions_and_departments[i].code_dep = departments[i].code
               /\ regions_and_departments[i].name_dep = departments[i].name

C1_Witness ==
    /\ pc = "merged_rd"
    /\ UniqueRegionCodes(regions)
    /\ Len(departments) = 3
    /\ Orphans # {}
    /\ Orphans # Rows(departments)

\* C2: no row of ReferendumArea has a department code containing 'Z', also
\* when RegionDepartment holds a department of that code, and every ballot row
\* the filter step removes has a code containing 'Z'.
C2_NoMarkerCodeSurvives ==
    pc \notin {"start", "loaded", "merged_rd"} =>
        /\ \A a \in Rows(referendum_and_areas) : ~StrContains(a.Department_code, "Z")
        /\ \A b \in Rows(referendum) \ Rows(referendum_filtered(referendum)) :
               StrContains(b.Department_code, "Z")

C2_Witness ==
    /\ pc = "merged_ra"
    /\ \E b \in Rows(referendum) : b.Department_code = <<"Z", "A">>
    /\ \E a \in Rows(regions_and_departments) :
           a.code_dep = <<"Z", "A">> /\ a.name_reg # NULL
    /\ referendum_and_areas # <<>>

\* C3: a department whose region code is absent from the Region table appears
\* in RegionDepartment with a null region name, and no ballot row of that
\* department is in ReferendumArea.
C3_OrphanDepartmentBallotsDropped ==
    pc \notin {"start", "loaded", "merged_rd"} =>
        \A d \in Orphans :
            /\ \E a \in Rows(regions_and_departments) :
                   a.code_dep = d.code /\ a.name_reg = NULL
            /\ \A a \in Rows(referendum_and_areas) : a.Department_code # d.code

\* C4: the sum of Registered over ReferendumArea equals the sum of Registered
\* over RegionResult, and RegionResult has no more rows than ReferendumArea.
C4_AggregationPreservesRegistered ==
    pc = "aggregated" =>
        /\ ColumnSum(referendum_results, "Registered")
               = ColumnSum(referendum_and_areas, "Registered")
        /\ Len(referendum_results) <= Len(referendum_and_areas)

\* The rows of ReferendumArea of one region code.
OfRegion(code) ==
    LET Is(a) == a.code_reg = code
    IN  SelectSeq(referendum_and_areas, Is)

\* C5: RegionResult has exactly one row per distinct region code of
\* ReferendumArea, and the five counts of each row are the sums of the columns
\* over the ReferendumArea rows of that code.
C5_OneRowPerRegionCode ==
    pc = "aggregated" =>
        /\ \A i, j \in 1..Len(referendum_results) :
               referendum_results[i].code_reg = referendum_results[j].code_reg => i = j
        /\ {r.code_reg : r \in Rows(referendum_results)}
               = {a.code_reg : a \in Rows(referendum_and_areas)}
        /\ \A r \in Rows(referendum_results) :
               \A c \in 1..Len(cols_to_sum) :
                   r[cols_to_sum[c]] = ColumnSum(OfRegion(r.code_reg), cols_to_sum[c])

\* C6: after plot_referendum_map every region row has Expressed = Choice A +
\* Choice B and ratio = Choice A / Expressed; with Expressed > 0 the ratio is a
\* number between 0 and 1, with Expressed = 0 it is not-a-number, and the call
\* returned (no error).
C6_RatioBetweenZeroAndOneOrNaN ==
    pc = "plotted" =>
        \A r \in Rows(referendum_results) :
            /\ r.Expressed = r.Choice_A + r.Choice_B
            /\ r.Expressed > 0 =>
                   /\ r.ratio = [kind |-> "num", num |-> r.Choice_A, den |-> r.Expressed]
                   /\ 0 <= r.ratio.num
                   /\ r.ratio.num <= r.ratio.den
            /\ r.Expressed = 0 => r.ratio = NaN

C6_Witness ==
    /\ pc = "plotted"
    /\ \E r \in Rows(referendum_results) : r.Expressed = 0 /\ r.Registered > 0
    /\ \E r \in Rows(referendum_results) : r.Choice_A > 0 /\ r.Choice_B > 0

ResultsShown == \E i \in 1..Len(output) : output[i] = "Aggregated Results by Region (Head)"

MapRendered == \E i \in 1..Len(output) : output[i] = "figure"

\* C7: a run that ends on a missing input file has printed no result table
\* and rendered no map.
C7_NothingShownBeforeMissingFile ==
    (pc \in {"failed", "crashed"} /\ files # Files) => ~ResultsShown /\ ~MapRendered

\* C8: the table plot_referendum_map returns holds every geometry row exactly
\* once, in order, with the ratio of the RegionResult row of the same code, or
\* not-a-number when no RegionResult row has that code.
C8_MapIsGeometriesWithRatio ==
    pc = "plotted" =>
        /\ Len(geo_merged) = Len(geo_regions)
        /\ \A i \in 1..Len(geo_regions) :
               /\ geo_merged[i].code = geo_regions[i].code
               /\ geo_merged[i].geometry = geo_regions[i].geometry
               /\ \A r \in Rows(referendum_results) :
                      r.code_reg = geo_regions[i].code => geo_merged[i].ratio = r.ratio
               /\ (\A r \in Rows(referendum_results) : r.code_reg # geo_regions[i].code)
                      => geo_merged[i].ratio = NaN

\* C9: the RegionResult held by the run is what the three stages give on the
\* inputs as they are now, its rows are in ascending order of region code, and
\* exchanging two neighbouring rows of any one input table gives the same
\* RegionResult (every input order is reached by such exchanges).
C9_ResultIndependentOfRowOrder ==
    pc = "aggregated" =>
        /\ referendum_results = Pipeline(referendum, regions, departments)
        /\ \A i \in 1..(Len(referendum_results) - 1) :
               ~StrLess(referendum_results[i + 1].code_reg, referendum_results[i].code_reg)
        /\ \A q \in Swaps(referendum) :
               Pipeline(q, regions, departments) = referendum_results
        /\ \A q \in Swaps(regions) :
               Pipeline(referendum, q, departments) = referendum_results
        /\ \A q \in Swaps(departments) :
               Pipeline(referendum, regions, q) = referendum_results

C9_Witness ==
    /\ pc = "aggregated"
    /\ Len(referendum_results) >= 2
    /\ \E i, j \in 1..Len(referendum_and_areas) :
           /\ i < j
           /\ referendum_and_areas[i].name_reg # NULL
           /\ referendum_and_areas[j].name_reg # NULL
           /\ StrLess(referendum_and_areas[j].code_reg, referendum_and_areas[i].code_reg)

CoreColumns ==
    {"code_reg", "name_reg", "Registered", "Abstentions", "Null", "Choice_A", "Choice_B"}

\* C10: a table, once built, is changed by no later step, except that the
\* first plot_referendum_map adds the columns Expressed and ratio to
\* RegionResult (same rows, same name and counts); a second call leaves
\* RegionResult as the first left it.
C10_OnlyPlotAddsColumns ==
    [][ /\ pc # "start" => UNCHANGED <<referendum, regions, departments>>
        /\ pc \notin {"start", "loaded"} => UNCHANGED regions_and_departments
        /\ pc \notin {"start", "loaded", "merged_rd"} => UNCHANGED referendum_and_areas
        /\ (pc = "aggregated" /\ pc' = "plotted") =>
               /\ Len(referendum_results') = Len(referendum_results)
               /\ \A i \in 1..Len(referendum_results) :
                      /\ DOMAIN referendum_results'[i] = CoreColumns \cup {"Expressed", "ratio"}
                      /\ DOMAIN referendum_results[i] = CoreColumns
                      /\ \A c \in CoreColumns :
                             referendum_results'[i][c] = referendum_results[i][c]
        /\ (pc = "aggregated" /\ pc' # "plotted") => UNCHANGED referendum_results
        /\ pc \in {"plotted", "failed", "crashed"} => UNCHANGED referendum_results
      ]_vars

C10_Witness ==
    /\ plots = 2
    /\ Len(referendum_results) >= 2
    /\ \E b \in Rows(referendum) : StrContains(b.Department_code, "Z")
====
